---------------------------- MODULE Spec2Model ----------------------------
(* A model of Delivery_agent_git.py: the delivery set kept in              *)
(* deliveries.json, the sanitizer, the two GenAI calls with their          *)
(* fallbacks, and the page handlers of the company representative and of   *)
(* the delivery boy.                                                       *)
(*                                                                         *)
(* A delivery is a function from field names to values (a Python dict).    *)
(* Agent names are tuples of one-letter strings so that str.lower and      *)
(* str.capitalize are computed letter by letter.  Coordinates are integers *)
(* in units of 0.01 degree.                                                *)
EXTENDS Integers, Sequences, FiniteSets, TLC

VARIABLES
    file,     \* deliveries.json: [exists, whole, data]
    op,       \* the handler that ran last (sequential specification)
    status,   \* how it ended: "success", "fallback", "exception", "none"
    reply,    \* the GenAI reply the last Analyze/Optimize handler received
    user,     \* the username of the last delivery-boy page run
    pc,       \* per session: the position of its handler (concurrent specification)
    loaded,   \* per session: the list its load_deliveries() returned
    tosave,   \* per session: the list it is passing to save_deliveries()
    outcome,  \* per session: how its last handler run ended
    runs      \* per session: the handler runs it has started

vars == <<file, op, status, reply, user, pc, loaded, tosave, outcome, runs>>

seqvars == <<op, status, reply, user>>

concvars == <<pc, loaded, tosave, outcome, runs>>

----------------------------------------------------------------------------
(* Bounds *)

\* Length of a generated batch (the Generate button builds five).
MaxLen == 3

\* Handler runs per session in the concurrent specification.
MaxRuns == 1

----------------------------------------------------------------------------
(* Fields, names and the values the random source and GenAI may supply *)

Fields == {"delivery_id", "item", "location", "lat", "lon",
           "assigned_agent", "priority_label", "urgency_score", "reason"}

Ravi == <<"R", "a", "v", "i">>

Amit == <<"A", "m", "i", "t">>

AMIT == <<"A", "M", "I", "T">>

\* Two of the five names random.choice draws from.
Roster == {Ravi, Amit}

\* Usernames as login_screen stores them: stripped and lower-cased.
Users == {<<"r", "a", "v", "i">>, <<"a", "m", "i", "t">>}

Uppers == <<"A", "I", "M", "R", "T", "V">>

Lowers == <<"a", "i", "m", "r", "t", "v">>

LowerChar(c) ==
    IF \E k \in 1..Len(Uppers) : Uppers[k] = c
    THEN Lowers[CHOOSE k \in 1..Len(Uppers) : Uppers[k] = c]
    ELSE c

UpperChar(c) ==
    IF \E k \in 1..Len(Lowers) : Lowers[k] = c
    THEN Uppers[CHOOSE k \in 1..Len(Lowers) : Lowers[k] = c]
    ELSE c

\* str.lower
Lower(s) == [k \in 1..Len(s) |-> LowerChar(s[k])]

\* A capitalize that leaves the string as it is.
CapitalizeKeepsCase(s) == s

\* str.capitalize: first letter upper case, the rest lower case
Capitalize(s) ==
    [k \in 1..Len(s) |-> IF k = 1 THEN UpperChar(s[k]) ELSE LowerChar(s[k])]

BaseLat == 2257

BaseLon == 8836

Jitter == 5

\* random_coord(): the base coordinate plus a jitter within +-0.05 degree;
\* the two extreme draws on the diagonal.
CoordChoices == {<<BaseLat - Jitter, BaseLon - Jitter>>,
                 <<BaseLat + Jitter, BaseLon + Jitter>>}

FallbackReason == "Default fallback priority."

\* The draws one pass of the sanitizer's loop body makes from `random`:
\* a coordinate, an agent, a label and a score.  Two seeds of the source.
Draws ==
    { [coord |-> <<BaseLat - Jitter, BaseLon - Jitter>>, agent |-> Ravi,
       label |-> "High", urgency |-> 3],
      [coord |-> <<BaseLat + Jitter, BaseLon + Jitter>>, agent |-> Amit,
       label |-> "Low", urgency |-> 9] }

\* The item descriptions of the Generate button.
Items == <<"Insulin Vial for Apollo Pharmacy",
           "Laptop for TechPark Office",
           "Groceries for South City Mall",
           "Poster Banners for College Fest",
           "Blood Pressure Monitor for Clinic">>

\* One of the five place names random.choice draws from.
Locations == {"Salt Lake"}

----------------------------------------------------------------------------
(* Dicts *)

EmptyRec == <<>>

Has(d, f) == f \in DOMAIN d

\* d[f] = v
Put(d, f, v) ==
    [g \in DOMAIN d \cup {f} |-> IF g = f THEN v ELSE d[g]]

\* dict.setdefault
SetDefault(d, f, v) == IF Has(d, f) THEN d ELSE Put(d, f, v)

\* {**a, **b}
Overlay(a, b) ==
    [g \in DOMAIN a \cup DOMAIN b |-> IF g \in DOMAIN b THEN b[g] ELSE a[g]]

\* f"D{i}", f"Package {i}", f"Location {i}"
DId(i) == "D" \o ToString(i)

PackageName(i) == "Package " \o ToString(i)

LocationName(i) == "Location " \o ToString(i)

----------------------------------------------------------------------------
(* sanitize_deliveries *)

\* A loop body that omits the reason default.
SanitizeOneNoReason(d, i, r) ==
    LET d1 == SetDefault(d, "delivery_id", DId(i))
        d2 == SetDefault(d1, "item", PackageName(i))
        d3 == SetDefault(d2, "location", LocationName(i))
        d4 == IF ~Has(d3, "lat") \/ ~Has(d3, "lon")
              THEN Put(Put(d3, "lat", r.coord[1]), "lon", r.coord[2])
              ELSE d3
        d5 == SetDefault(d4, "assigned_agent", r.agent)
        d6 == SetDefault(d5, "priority_label", r.label)
    IN  SetDefault(d6, "urgency_score", r.urgency)

\* The loop body for the record at 1-based position i, with draws r.
SanitizeOne(d, i, r) ==
    LET d1 == SetDefault(d, "delivery_id", DId(i))
        d2 == SetDefault(d1, "item", PackageName(i))
        d3 == SetDefault(d2, "location", LocationName(i))
        d4 == IF ~Has(d3, "lat") \/ ~Has(d3, "lon")
              THEN Put(Put(d3, "lat", r.coord[1]), "lon", r.coord[2])
              ELSE d3
        d5 == SetDefault(d4, "assigned_agent", r.agent)
        d6 == SetDefault(d5, "priority_label", r.label)
        d7 == SetDefault(d6, "urgency_score", r.urgency)
    IN  SetDefault(d7, "reason", FallbackReason)

\* sanitize_deliveries(ds), the draws of pass i being rs[i]
Sanitize(ds, rs) == [i \in 1..Len(ds) |-> SanitizeOne(ds[i], i, rs[i])]

\* Every list sanitize_deliveries(ds) can return.
SanitizeSet(ds) == { Sanitize(ds, rs) : rs \in [1..Len(ds) -> Draws] }

----------------------------------------------------------------------------
(* save_deliveries / load_deliveries, run without interruption *)

Absent == [exists |-> FALSE, whole |-> TRUE, data |-> <<>>]

Saved(ds) == [exists |-> TRUE, whole |-> TRUE, data |-> ds]

\* load_deliveries() on a file no writer has open
Load(f) == IF f.exists THEN f.data ELSE <<>>


----------------------------------------------------------------------------
(* What a GenAI call can come back with *)

\* The records replies are made of: the two partial records of a reroute
\* (an agent change for D1, a new reason for D2), a record for an id no
\* batch holds, carrying one coordinate only, and a record with no field.
P1 == [delivery_id |-> "D1", assigned_agent |-> AMIT]

P2 == [delivery_id |-> "D2", reason |-> "rerouted"]

P9 == [delivery_id |-> "D9", lat |-> 2260]

\* The lists of objects json.loads may return.
RecordLists ==
    { <<>>, <<P1>>, <<P1, P2>>, <<P1, P1>>, <<P2, EmptyRec>>, <<P9>> }

\* generate_content / json.loads end in one of three ways: an exception
\* (transport error, text that is not JSON), JSON that is not a list of
\* objects and on which iterating as one raises (a number, a list of
\* numbers), or a list of objects.
Replies ==
    { [kind |-> "error", recs |-> <<>>], [kind |-> "malformed", recs |-> <<>>] }
    \cup { [kind |-> "records", recs |-> rs] : rs \in RecordLists }

NoReply == [kind |-> "none", recs |-> <<>>]

----------------------------------------------------------------------------
(* GenAIAgent *)

\* analyze_priorities: the (data, message) pairs it can return.  On success
\* data is whatever json.loads produced.
AnalyzePriorities(deliveries, rp) ==
    IF rp.kind = "error"
    THEN { [data |-> [kind |-> "records", recs |-> s], msg |-> "fallback"] :
             s \in SanitizeSet(deliveries) }
    ELSE { [data |-> rp, msg |-> "success"] }

\* base_map.get(k, {}): a dict comprehension keeps the last entry of a key
BaseMapGet(deliveries, k) ==
    LET hits == { j \in 1..Len(deliveries) : deliveries[j]["delivery_id"] = k }
    IN  IF hits = {} THEN EmptyRec
        ELSE deliveries[CHOOSE j \in hits : \A h \in hits : h <= j]

\* A merge that keeps the prior deliveries the reply does not mention.
MergedUnion(deliveries, optimized) ==
    [i \in 1..Len(optimized) |->
        Overlay(BaseMapGet(deliveries, optimized[i]["delivery_id"]), optimized[i])]
    \o SelectSeq(deliveries,
                 LAMBDA d : \A i \in 1..Len(optimized) :
                               optimized[i]["delivery_id"] # d["delivery_id"])

\* merged = [{**base_map.get(o["delivery_id"], {}), **o} for o in optimized]
Merged(deliveries, optimized) ==
    [i \in 1..Len(optimized) |->
        Overlay(BaseMapGet(deliveries, optimized[i]["delivery_id"]), optimized[i])]

\* The try block of optimize_routes runs to its end: the reply is a list of
\* objects and every d["delivery_id"], o["delivery_id"] finds its key.
OptimizeTryOk(deliveries, rp) ==
    /\ rp.kind = "records"
    /\ \A j \in 1..Len(deliveries) : Has(deliveries[j], "delivery_id")
    /\ \A i \in 1..Len(rp.recs) : Has(rp.recs[i], "delivery_id")

\* optimize_routes: the (data, message) pairs it can return
OptimizeRoutes(deliveries, rp) ==
    IF OptimizeTryOk(deliveries, rp)
    THEN { [data |-> Merged(deliveries, rp.recs), msg |-> "success"] }
    ELSE { [data |-> s, msg |-> "fallback"] : s \in SanitizeSet(deliveries) }

----------------------------------------------------------------------------
(* The work of the pages between load_deliveries and save_deliveries *)

\* The delivery boy's list: d.get("assigned_agent", "").lower() == username.lower()
FilterByAgent(deliveries, u) ==
    SelectSeq(deliveries,
              LAMBDA d : Lower(IF Has(d, "assigned_agent")
                               THEN d["assigned_agent"] ELSE <<>>) = Lower(u))

\* random_delivery["assigned_agent"] = username.capitalize()
Assign(deliveries, i, u) ==
    [deliveries EXCEPT ![i] = Put(deliveries[i], "assigned_agent", Capitalize(u))]

\* The list the Generate button builds before sanitizing it.
Batch(gs, ls) ==
    [i \in 1..MaxLen |->
        [delivery_id |-> DId(i), item |-> Items[i], location |-> ls[i],
         lat |-> gs[i].coord[1], lon |-> gs[i].coord[2],
         assigned_agent |-> gs[i].agent]]

\* Every list the Generate button can pass to save_deliveries.
GeneratedLists ==
    UNION { SanitizeSet(Batch(gs, ls)) :
              gs \in [1..MaxLen -> Draws], ls \in [1..MaxLen -> Locations] }

Raised == [msg |-> "exception", saves |-> FALSE, list |-> <<>>]

\* The Analyze button: save_deliveries(sanitize_deliveries(prioritized)),
\* where sanitize_deliveries raises on what is not a list of dicts.
PrioritizeRuns(deliveries, rp) ==
    UNION { IF res.data.kind = "records"
            THEN { [msg |-> res.msg, saves |-> TRUE, list |-> s] :
                     s \in SanitizeSet(res.data.recs) }
            ELSE { Raised } :
            res \in AnalyzePriorities(deliveries, rp) }

\* The Optimize button: save_deliveries(sanitize_deliveries(optimized))
ReoptimizeRuns(deliveries, rp) ==
    UNION { { [msg |-> res.msg, saves |-> TRUE, list |-> s] :
                s \in SanitizeSet(res.data) } :
            res \in OptimizeRoutes(deliveries, rp) }

----------------------------------------------------------------------------
(* The pages, one handler run at a time *)

NoSessions == <<>>

Init ==
    /\ file = Absent
    /\ op = "start"
    /\ status = "none"
    /\ reply = NoReply
    /\ user = <<>>
    /\ pc = NoSessions
    /\ loaded = NoSessions
    /\ tosave = NoSessions
    /\ outcome = NoSessions
    /\ runs = NoSessions

\* "Generate Deliveries"
GenerateBatch ==
    /\ \E s \in GeneratedLists : file' = Saved(s)
    /\ op' = "generate"
    /\ status' = "success"
    /\ reply' = NoReply
    /\ user' = <<>>
    /\ UNCHANGED concvars

\* "Analyze Priorities with GenAI": shown when the loaded list is not empty
Prioritize ==
    /\ Load(file) # <<>>
    /\ \E rp \in Replies :
         /\ reply' = rp
         /\ \E run \in PrioritizeRuns(Load(file), rp) :
              /\ file' = IF run.saves THEN Saved(run.list) ELSE file
              /\ status' = run.msg
    /\ op' = "prioritize"
    /\ user' = <<>>
    /\ UNCHANGED concvars

\* "Optimize Routes (GenAI)": shown when the loaded list is not empty
Reoptimize ==
    /\ Load(file) # <<>>
    /\ \E rp \in Replies :
         /\ reply' = rp
         /\ \E run \in ReoptimizeRuns(Load(file), rp) :
              /\ file' = IF run.saves THEN Saved(run.list) ELSE file
              /\ status' = run.msg
    /\ op' = "reoptimize"
    /\ user' = <<>>
    /\ UNCHANGED concvars

\* The delivery boy's page when it auto-assigns
AutoAssignIfUnassigned ==
    /\ \E u \in Users :
         /\ user' = u
         /\ FilterByAgent(Load(file), u) = <<>>
         /\ Load(file) # <<>>
         /\ \E i \in 1..Len(Load(file)) : file' = Saved(Assign(Load(file), i, u))
    /\ op' = "autoassign"
    /\ status' = "success"
    /\ reply' = NoReply
    /\ UNCHANGED concvars

\* The delivery boy's page when it only shows the list
AgentView ==
    /\ \E u \in Users :
         /\ user' = u
         /\ (FilterByAgent(Load(file), u) # <<>> \/ Load(file) = <<>>)
    /\ op' = "view"
    /\ status' = "success"
    /\ reply' = NoReply
    /\ UNCHANGED <<file, concvars>>

Next ==
    \/ GenerateBatch
    \/ Prioritize
    \/ Reoptimize
    \/ AutoAssignIfUnassigned
    \/ AgentView

Spec == Init /\ [][Next]_vars

----------------------------------------------------------------------------
(* The pages of two sessions running at once.  Streamlit runs each         *)
(* session's script in a thread of its own; the sessions share only        *)
(* deliveries.json.  A step is one access to the file together with the    *)
(* session-local work that follows it.                                     *)

Sessions == {"rep", "boy"}

\* open(DATA_FILE, "w"): the file exists and is empty
Truncated == [exists |-> TRUE, whole |-> FALSE, data |-> <<>>]

\* load_deliveries() at any moment: json.load raises on an empty file and
\* on text that is not one whole document.
LoadDeliveries(f) ==
    IF ~f.exists THEN [ok |-> TRUE, list |-> <<>>]
    ELSE IF f.whole THEN [ok |-> TRUE, list |-> f.data]
    ELSE [ok |-> FALSE, list |-> <<>>]

\* A close that writes only if the file still is as this writer's open left it.
WrittenUnlessChanged(f, mine) == IF f = Truncated THEN { Saved(mine) } ELSE { f }

\* json.dump and the close of the with block.  The text fits the writer's
\* buffer, so it reaches the file in one write at offset 0 when the file is
\* closed.  If another writer wrote since this one's open truncated the
\* file, what lies beyond this writer's text stays: measured in records, a
\* longer text leaves a tail behind this one, a shorter text is covered,
\* and a text of as many records may do either.
Written(f, mine) ==
    LET cur == f.data
        tail == SubSeq(cur, Len(mine) + 1, Len(cur))
        mixed == [exists |-> TRUE, whole |-> FALSE, data |-> mine \o tail]
    IN  IF Len(cur) < Len(mine) \/ cur = mine \/ cur = <<>> THEN { Saved(mine) }
        ELSE IF Len(cur) > Len(mine) THEN { mixed }
        ELSE { Saved(mine), mixed }

\* The concurrent runs start from a generated batch; of the batches, those
\* whose defaulted scores all came out 3.
ConcStart == { s \in GeneratedLists : \A i \in 1..Len(s) : s[i]["urgency_score"] = 3 }

InitConc ==
    /\ file \in { Saved(s) : s \in ConcStart }
    /\ op = "start"
    /\ status = "none"
    /\ reply = NoReply
    /\ user = <<>>
    /\ pc = [p \in Sessions |-> "idle"]
    /\ loaded = [p \in Sessions |-> <<>>]
    /\ tosave = [p \in Sessions |-> <<>>]
    /\ outcome = [p \in Sessions |-> "none"]
    /\ runs = [p \in Sessions |-> 0]

\* A handler run that ends without saving.
Ends(p, how, list) ==
    /\ pc' = [pc EXCEPT ![p] = "idle"]
    /\ loaded' = [loaded EXCEPT ![p] = list]
    /\ tosave' = [tosave EXCEPT ![p] = <<>>]
    /\ outcome' = [outcome EXCEPT ![p] = how]

\* A handler run that goes on to save_deliveries(list).
GoesToSave(p, seen, list) ==
    /\ pc' = [pc EXCEPT ![p] = "open"]
    /\ loaded' = [loaded EXCEPT ![p] = seen]
    /\ tosave' = [tosave EXCEPT ![p] = list]
    /\ outcome' = [outcome EXCEPT ![p] = "running"]

\* The representative presses Analyze or Optimize: load_deliveries(), the
\* GenAI call and the sanitizing.
RepLoad ==
    /\ pc["rep"] = "idle"
    /\ runs["rep"] < MaxRuns
    /\ runs' = [runs EXCEPT !["rep"] = @ + 1]
    /\ LET r == LoadDeliveries(file)
       IN  IF ~r.ok THEN Ends("rep", "StoreUnavailable", <<>>)
           ELSE IF r.list = <<>> THEN Ends("rep", "ok", <<>>)
           ELSE \E rp \in Replies :
                  \E run \in PrioritizeRuns(r.list, rp) \cup ReoptimizeRuns(r.list, rp) :
                     IF run.saves THEN GoesToSave("rep", r.list, run.list)
                     ELSE Ends("rep", "exception", r.list)
    /\ UNCHANGED <<file, seqvars>>

\* render_map(load_deliveries()) at the end of the representative's page
RepRender ==
    /\ pc["rep"] = "render"
    /\ pc' = [pc EXCEPT !["rep"] = "idle"]
    /\ outcome' = [outcome EXCEPT !["rep"] =
                      IF LoadDeliveries(file).ok THEN "ok" ELSE "StoreUnavailable"]
    /\ UNCHANGED <<file, seqvars, loaded, tosave, runs>>

\* The delivery boy's page: load_deliveries(), the filter and the choice
BoyLoad ==
    /\ pc["boy"] = "idle"
    /\ runs["boy"] < MaxRuns
    /\ runs' = [runs EXCEPT !["boy"] = @ + 1]
    /\ LET r == LoadDeliveries(file)
       IN  IF ~r.ok THEN Ends("boy", "StoreUnavailable", <<>>)
           ELSE \E u \in Users :
                  IF FilterByAgent(r.list, u) # <<>> \/ r.list = <<>>
                  THEN Ends("boy", "ok", r.list)
                  ELSE \E i \in 1..Len(r.list) :
                         GoesToSave("boy", r.list, Assign(r.list, i, u))
    /\ UNCHANGED <<file, seqvars>>

\* with open(DATA_FILE, "w") as f
SaveOpen(p) ==
    /\ pc[p] = "open"
    /\ file' = Truncated
    /\ pc' = [pc EXCEPT ![p] = "close"]
    /\ UNCHANGED <<seqvars, loaded, tosave, outcome, runs>>

\* json.dump(deliveries, f, indent=2) and the end of the with block
SaveClose(p) ==
    /\ pc[p] = "close"
    /\ file' \in Written(file, tosave[p])
    /\ pc' = [pc EXCEPT ![p] = IF p = "rep" THEN "render" ELSE "idle"]
    /\ outcome' = [outcome EXCEPT ![p] = IF p = "rep" THEN "running" ELSE "ok"]
    /\ UNCHANGED <<seqvars, loaded, tosave, runs>>

NextConc ==
    \/ RepLoad
    \/ RepRender
    \/ BoyLoad
    \/ \E p \in Sessions : SaveOpen(p)
    \/ \E p \in Sessions : SaveClose(p)

SpecConc == InitConc /\ [][NextConc]_vars

----------------------------------------------------------------------------
(* Vocabulary of the properties *)

\* The persisted delivery set.
Persisted == file.data

Populated(d) == Fields \subseteq DOMAIN d

Ids(ds) == [i \in 1..Len(ds) |-> ds[i]["delivery_id"]]

UniqueIds(ds) ==
    \A i, j \in 1..Len(ds) : i # j => ds[i]["delivery_id"] # ds[j]["delivery_id"]

----------------------------------------------------------------------------
(* C1 *)

\* C1 as stated: after a successful Optimize the persisted list has one
\* entry per entry of the reply, in the reply's order, and each entry
\* EQUALS a prior delivery with that id (an empty record if there is none)
\* overlaid with the partial record.
C1_AsStated ==
    [][(op' = "reoptimize" /\ status' = "success") =>
        LET R == reply'.recs
            prior == Persisted
            new == Persisted'
        IN  /\ Len(new) = Len(R)
            /\ \A i \in 1..Len(R) :
                 LET hits == { j \in 1..Len(prior) :
                                 prior[j]["delivery_id"] = R[i]["delivery_id"] }
                     bases == IF hits = {} THEN { EmptyRec }
                              ELSE { prior[j] : j \in hits }
                 IN  \E base \in bases :
                       /\ DOMAIN new[i] = DOMAIN base \cup DOMAIN R[i]
                       /\ \A f \in DOMAIN new[i] :
                            new[i][f] = IF f \in DOMAIN R[i] THEN R[i][f] ELSE base[f]
    ]_vars

\* C1 amended: after a successful Optimize the persisted list has one entry
\* per entry of the reply, in the reply's order; entry i is the sanitizer's
\* completion of the overlay of the LAST prior delivery with that id (an
\* empty record if there is none) with the partial record: it has every
\* field, it agrees with the partial record, and otherwise with the prior
\* delivery, on every field they have, except that lat and lon are both
\* drawn anew when the overlay lacks one of them, and every field neither
\* has holds the sanitizer's default for position i.  Prior deliveries whose
\* id is not in the reply are absent.
C1_Amended ==
    [][(op' = "reoptimize" /\ status' = "success") =>
        LET R == reply'.recs
            prior == Persisted
            new == Persisted'
        IN  /\ Len(new) = Len(R)
            /\ \A i \in 1..Len(R) :
                 LET hits == { j \in 1..Len(prior) :
                                 prior[j]["delivery_id"] = R[i]["delivery_id"] }
                     base == IF hits = {} THEN EmptyRec
                             ELSE prior[CHOOSE j \in hits : \A h \in hits : h <= j]
                     given == DOMAIN base \cup DOMAIN R[i]
                     redrawn == IF {"lat", "lon"} \subseteq given THEN {}
                                ELSE {"lat", "lon"}
                 IN  /\ DOMAIN new[i] = Fields
                     /\ \A f \in DOMAIN R[i] \ redrawn : new[i][f] = R[i][f]
                     /\ \A f \in (DOMAIN base \ DOMAIN R[i]) \ redrawn :
                          new[i][f] = base[f]
                     /\ redrawn # {} => <<new[i]["lat"], new[i]["lon"]>> \in CoordChoices
                     /\ "item" \notin given => new[i]["item"] = PackageName(i)
                     /\ "location" \notin given => new[i]["location"] = LocationName(i)
                     /\ "assigned_agent" \notin given => new[i]["assigned_agent"] \in Roster
                     /\ "priority_label" \notin given =>
                          new[i]["priority_label"] \in {"High", "Medium", "Low"}
                     /\ "urgency_score" \notin given => new[i]["urgency_score"] \in 3..9
                     /\ "reason" \notin given => new[i]["reason"] = FallbackReason
    ]_vars

\* The reroute of D1 and D2 has been merged into deliveries of a generated
\* batch: two entries, the items of the batch's D1 and D2, no D3.
C1_Witness ==
    /\ op = "reoptimize" /\ status = "success"
    /\ reply.recs = <<P1, P2>>
    /\ Len(Persisted) = 2
    /\ Persisted[1]["assigned_agent"] = AMIT /\ Persisted[1]["item"] = Items[1]
    /\ Persisted[2]["reason"] = "rerouted" /\ Persisted[2]["item"] = Items[2]

----------------------------------------------------------------------------
(* C2, C3: the sanitizer, on the list a successful Analyze hands it *)

\* C2: the sanitizer's output has every field in every entry, and two
\* output entries share a delivery_id only if two input entries carried
\* that delivery_id.
C2_AsStated ==
    (op = "prioritize" /\ status = "success") =>
        /\ Len(Persisted) = Len(reply.recs)
        /\ \A i \in 1..Len(Persisted) : Populated(Persisted[i])
        /\ \A i, j \in 1..Len(Persisted) :
             (i # j /\ Persisted[i]["delivery_id"] = Persisted[j]["delivery_id"]) =>
                \E a, b \in 1..Len(reply.recs) :
                   /\ a # b
                   /\ Has(reply.recs[a], "delivery_id")
                   /\ Has(reply.recs[b], "delivery_id")
                   /\ reply.recs[a]["delivery_id"] = Persisted[i]["delivery_id"]
                   /\ reply.recs[b]["delivery_id"] = Persisted[i]["delivery_id"]

\* C3: the sanitizer's output carries, for every field present in an input
\* record, the value the input record had.
C3_AsStated ==
    (op = "prioritize" /\ status = "success") =>
        /\ Len(Persisted) = Len(reply.recs)
        /\ \A i \in 1..Len(reply.recs) :
             \A f \in DOMAIN reply.recs[i] : Persisted[i][f] = reply.recs[i][f]

----------------------------------------------------------------------------
(* C4, C5 *)

\* C4: when the Analyze call fails, the persisted list is fully populated,
\* has the delivery_ids of the list passed in, in order, and every reason
\* is the fallback reason string.
C4_AsStated ==
    [][(op' = "prioritize" /\ status' = "fallback") =>
        /\ Ids(Persisted') = Ids(Persisted)
        /\ \A i \in 1..Len(Persisted') :
             /\ Populated(Persisted'[i])
             /\ Persisted'[i]["reason"] = FallbackReason
    ]_vars

\* C5: an Analyze or Optimize action never ends in an exception: it ends
\* with a success or fallback status and a fully populated persisted list.
C5_AsStated ==
    op \in {"prioritize", "reoptimize"} =>
        /\ status \in {"success", "fallback"}
        /\ \A i \in 1..Len(Persisted) : Populated(Persisted[i])

----------------------------------------------------------------------------
(* C6 *)

\* C6: an auto-assignment for username A changes exactly one delivery: its
\* assigned_agent becomes A capitalized, its other fields and all other
\* deliveries stay, length and order stay, the list is persisted, and
\* FilterByAgent for A on the persisted list returns exactly that delivery.
C6_AutoAssign ==
    [][op' = "autoassign" =>
        LET prior == Persisted
            new == Persisted'
            capitalized == IF user' = <<"a", "m", "i", "t">> THEN Amit
                           ELSE IF user' = <<"r", "a", "v", "i">> THEN Ravi
                           ELSE <<>>
        IN  /\ file'.exists /\ file'.whole
            /\ Len(new) = Len(prior)
            /\ \E i \in 1..Len(prior) :
                 /\ new[i]["assigned_agent"] = capitalized
                 /\ new[i] # prior[i]
                 /\ DOMAIN new[i] = DOMAIN prior[i]
                 /\ \A f \in DOMAIN prior[i] \ {"assigned_agent"} : new[i][f] = prior[i][f]
                 /\ \A j \in 1..Len(prior) : j # i => new[j] = prior[j]
                 /\ FilterByAgent(new, user') = <<new[i]>>
    ]_vars

\* "amit" has been auto-assigned one of several deliveries.
C6_Witness ==
    /\ op = "autoassign"
    /\ user = <<"a", "m", "i", "t">>
    /\ Len(Persisted) >= 2
    /\ Len(FilterByAgent(Persisted, user)) = 1
    /\ \E i \in 1..Len(Persisted) : Persisted[i]["assigned_agent"] = Ravi

----------------------------------------------------------------------------
(* C7, C10: two sessions at once *)

\* C7: no load_deliveries() fails or returns a partial list because a
\* save_deliveries() is in progress.
C7_AsStated ==
    \A p \in Sessions :
        /\ outcome[p] # "StoreUnavailable"
        /\ \A i \in 1..Len(loaded[p]) : Populated(loaded[p][i])

\* C10: whatever the file held, a session's save leaves in it the list the
\* session computed from its own earlier load and nothing of what another
\* session saved in between (the file is that list whenever it is one
\* whole document), and the save raises nothing; for the delivery boy the
\* list is the one he loaded with one delivery's agent replaced.
C10_LastSaveWins ==
    [][\A p \in Sessions :
        (pc[p] = "close" /\ pc'[p] # "close") =>
            /\ file'.whole => file'.data = tosave[p]
            /\ outcome'[p] \notin {"exception", "StoreUnavailable"}
            /\ p = "boy" =>
                 /\ Len(tosave[p]) = Len(loaded[p])
                 /\ \E i \in 1..Len(loaded[p]) :
                      \A j \in 1..Len(loaded[p]) : j # i => tosave[p][j] = loaded[p][j]
    ]_vars

\* Both sessions loaded the same list, both saved and ended without an
\* error, the file is the delivery boy's list, and the reroute reason the
\* representative saved is in no persisted delivery.
C10_Witness ==
    /\ \A p \in Sessions : pc[p] = "idle" /\ runs[p] >= 1 /\ outcome[p] = "ok"
    /\ loaded["rep"] = loaded["boy"]
    /\ tosave["boy"] # <<>>
    /\ \E i \in 1..Len(tosave["rep"]) : tosave["rep"][i]["reason"] = "rerouted"
    /\ file = Saved(tosave["boy"])
    /\ \A i \in 1..Len(Persisted) : Persisted[i]["reason"] # "rerouted"

----------------------------------------------------------------------------
(* C8, C9 *)

\* C8: every persisted delivery has all nine fields, after any sequence of
\* Generate, Analyze, Optimize and auto-assignment.
C8_AllPopulated ==
    /\ file.whole
    /\ \A i \in 1..Len(Persisted) : Populated(Persisted[i])

\* A reply of partial records went through Analyze and was persisted.
C8_Witness ==
    /\ op = "prioritize" /\ status = "success"
    /\ reply.recs = <<P2, EmptyRec>>
    /\ Len(Persisted) = 2

\* C9: no two persisted deliveries share a delivery_id.
C9_AsStated == UniqueIds(Persisted)

============================================================================
